---- MODULE Spec2Model ----
(***************************************************************************)
(* Model of the health-analysis engine of K8s-health-guardian              *)
(* (src/app/ai_analyzer.py): AIAnalyzer.analyze_cluster_health,            *)
(* AIAnalyzer._prepare_context and AIAnalyzer._fallback_analysis, and of   *)
(* KubernetesMonitor.get_resource_usage (src/app/k8s_monitor.py).          *)
(*                                                                         *)
(* Python dicts are functions whose DOMAIN is the set of keys present;     *)
(* lists are sequences; a str is a sequence of characters (messages, the   *)
(* completion text) or a TLA+ string (fixed literals).                     *)
(***************************************************************************)
EXTENDS Integers, Sequences, FiniteSets, TLC

VARIABLES cluster_data, pc, context, response, requests_sent, handler,
          result, raised

vars == <<cluster_data, pc, context, response, requests_sent, handler,
          result, raised>>

(***************************************************************************)
(* Bounds of the model                                                     *)
(***************************************************************************)
MaxEvents == 6
MaxFailedPods == 4
MaxHighPods == 3
MaxTextLen == 4
MaxCount == 2

(***************************************************************************)
(* Python helpers                                                          *)
(***************************************************************************)
EmptyDict == [k \in {} |-> 0]

\* dict.get(key, default)
Get(d, k, default) == IF k \in DOMAIN d THEN d[k] ELSE default

Max(a, b) == IF a >= b THEN a ELSE b

Min(a, b) == IF a <= b THEN a ELSE b

\* seq[:n]
Prefix(s, n) == SubSeq(s, 1, Min(n, Len(s)))

\* a Python value that is either a str or None
Str(chars) == [t |-> "str", v |-> chars]

NoneVal == [t |-> "NoneType", v |-> <<>>]

\* a str of n characters
Msg(n) == [i \in 1..n |-> i % 7]

\* the argument of a title without a placeholder
NoArg == -1

(***************************************************************************)
(* _fallback_analysis                                                      *)
(***************************************************************************)
FailedPodsRule(pods) == Get(pods, "failed", 0) > 0

HighCpuRule(resource_usage) == Len(Get(resource_usage, "high_cpu_pods", <<>>)) > 0

HighMemRule(resource_usage) == Len(Get(resource_usage, "high_memory_pods", <<>>)) > 0

PendingPodsRule(pods) == Get(pods, "pending", 0) > 0

FailedPodsIssue(pods) ==
    [severity |-> "Critical",
     title |-> [fmt |-> "{} Failed Pods", arg |-> Get(pods, "failed", NoArg)],
     description |-> [fmt |-> "Pods are in failed state and need investigation", arg |-> NoArg]]

FailedPodsRecommendation ==
    [priority |-> "high",
     action |-> "Investigate failed pods",
     command |-> "kubectl get pods --all-namespaces --field-selector=status.phase=Failed"]

HighCpuIssue(resource_usage) ==
    [severity |-> "Warning",
     title |-> [fmt |-> "High CPU Usage Detected", arg |-> NoArg],
     description |-> [fmt |-> "{} pods using >500m CPU",
                      arg |-> Len(Get(resource_usage, "high_cpu_pods", <<>>))]]

HighCpuRecommendation ==
    [priority |-> "medium",
     action |-> "Review pod resource limits",
     command |-> "kubectl top pods --all-namespaces --sort-by=cpu"]

HighMemIssue(resource_usage) ==
    [severity |-> "Warning",
     title |-> [fmt |-> "High Memory Usage Detected", arg |-> NoArg],
     description |-> [fmt |-> "{} pods using >1Gi memory",
                      arg |-> Len(Get(resource_usage, "high_memory_pods", <<>>))]]

PendingPodsIssue(pods) ==
    [severity |-> "Info",
     title |-> [fmt |-> "{} Pods Pending", arg |-> Get(pods, "pending", NoArg)],
     description |-> [fmt |-> "Pods waiting to be scheduled", arg |-> NoArg]]

NoIssuesDetected ==
    [severity |-> "Info",
     title |-> [fmt |-> "No Issues Detected", arg |-> NoArg],
     description |-> [fmt |-> "Cluster appears healthy", arg |-> NoArg]]

ContinueMonitoring ==
    [priority |-> "low",
     action |-> "Continue monitoring",
     command |-> "kubectl get pods --all-namespaces"]

DefaultSummary == "Cluster health analysis (AI unavailable - using rule-based fallback)"

SummaryHealthy == "Cluster is healthy with minor issues"

SummarySomeIssues == "Cluster has some issues requiring attention"

SummarySignificant == "Cluster has significant issues requiring immediate attention"

\* the body of the high-CPU branch: what it appends to recommendations
HighCpuRecommendations == <<HighCpuRecommendation>>

HighMemRecommendationsSymmetric == <<HighCpuRecommendation>>

\* the body of the high-memory branch appends no recommendation
HighMemRecommendations == <<>>

PendingDeductionAsMemory(h) == h - 10

\* health_score -= 5
PendingDeduction(h) == h - 5

SummaryForStrictBands(health_score) ==
    IF health_score > 90 THEN SummaryHealthy
    ELSE IF health_score > 70 THEN SummarySomeIssues
    ELSE SummarySignificant

\* the if / elif / else over the unclamped score, overwriting the default
SummaryFor(health_score) ==
    IF health_score >= 90 THEN SummaryHealthy
    ELSE IF health_score >= 70 THEN SummarySomeIssues
    ELSE SummarySignificant

IssuesOrDefaultMissing(issues) == issues

\* issues if issues else [No Issues Detected]
IssuesOrDefault(issues) == IF issues # <<>> THEN issues ELSE <<NoIssuesDetected>>

\* recommendations if recommendations else [Continue monitoring]
RecommendationsOrDefault(recommendations) ==
    IF recommendations # <<>> THEN recommendations ELSE <<ContinueMonitoring>>

_fallback_analysis(cd) ==
    LET pods == Get(cd, "pods", EmptyDict)
        resource_usage == Get(cd, "resource_usage", EmptyDict)
        \* check for failed pods
        h1 == IF FailedPodsRule(pods) THEN 100 - 20 ELSE 100
        i1 == IF FailedPodsRule(pods) THEN <<FailedPodsIssue(pods)>> ELSE <<>>
        r1 == IF FailedPodsRule(pods) THEN <<FailedPodsRecommendation>> ELSE <<>>
        \* check for high CPU usage
        h2 == IF HighCpuRule(resource_usage) THEN h1 - 10 ELSE h1
        i2 == IF HighCpuRule(resource_usage)
              THEN Append(i1, HighCpuIssue(resource_usage)) ELSE i1
        r2 == IF HighCpuRule(resource_usage) THEN r1 \o HighCpuRecommendations ELSE r1
        \* check for high memory usage
        h3 == IF HighMemRule(resource_usage) THEN h2 - 10 ELSE h2
        i3 == IF HighMemRule(resource_usage)
              THEN Append(i2, HighMemIssue(resource_usage)) ELSE i2
        r3 == IF HighMemRule(resource_usage) THEN r2 \o HighMemRecommendations ELSE r2
        \* check for pending pods
        h4 == IF PendingPodsRule(pods) THEN PendingDeduction(h3) ELSE h3
        i4 == IF PendingPodsRule(pods) THEN Append(i3, PendingPodsIssue(pods)) ELSE i3
    IN  [health_score |-> Max(h4, 0),
         summary |-> SummaryFor(h4),
         issues |-> IssuesOrDefault(i4),
         predictions |-> <<>>,
         recommendations |-> RecommendationsOrDefault(r3)]

(***************************************************************************)
(* _prepare_context                                                        *)
(***************************************************************************)
EventsLimit == 5

FailedPodsLimit == 3

MessageLimit == 100

\* one element of context_parts
Part(kind, nums, strs, msg) == [kind |-> kind, nums |-> nums, strs |-> strs, msg |-> msg]

CountType(events, type) ==
    Cardinality({i \in 1..Len(events) : Get(events[i], "type", "None") = type})

\* event.get('message', '')[:100] is a slice of None when the key holds None
MessageSliceRaises(event) == Get(event, "message", Str(<<>>)).t = "NoneType"

\* event_msg = event.get('message', '')[:100]
EventMessage(event) == Prefix(Get(event, "message", Str(<<>>)).v, MessageLimit)

EventPart(event) ==
    Part("event", <<>>,
         <<Get(event, "type", "None"), Get(event, "reason", "None")>>,
         EventMessage(event))

FailedPodPart(pod) ==
    Part("failed_pod", <<>>,
         <<Get(pod, "namespace", "None"), Get(pod, "name", "None"),
           Get(pod, "reason", "Unknown")>>,
         <<>>)

\* events[:5]
TopEvents(events) == Prefix(events, EventsLimit)

\* failed_pods[:3]
TopFailedPods(failed_pods) == Prefix(failed_pods, FailedPodsLimit)

\* the value returned, or the exception that leaves the function
_prepare_context(cd) ==
    LET pods == Get(cd, "pods", EmptyDict)
        failed_pods == Get(cd, "failed_pods", <<>>)
        resource_usage == Get(cd, "resource_usage", EmptyDict)
        high_cpu == Get(resource_usage, "high_cpu_pods", <<>>)
        high_mem == Get(resource_usage, "high_memory_pods", <<>>)
        events == Get(cd, "events", <<>>)
        top == TopEvents(events)
        topFailed == TopFailedPods(failed_pods)
        fixed ==
            << Part("pod_summary",
                    <<Get(pods, "total", 0), Get(pods, "running", 0),
                      Get(pods, "failed", 0), Get(pods, "pending", 0)>>, <<>>, <<>>),
               Part("failed_count", <<Len(failed_pods)>>, <<>>, <<>>),
               Part("resource_usage", <<Len(high_cpu), Len(high_mem)>>, <<>>, <<>>),
               Part("event_tally",
                    <<CountType(events, "Warning"), CountType(events, "Normal")>>,
                    <<>>, <<>>) >>
        eventParts ==
            IF events # <<>>
            THEN <<Part("events_header", <<>>, <<>>, <<>>)>>
                 \o [i \in 1..Len(top) |-> EventPart(top[i])]
            ELSE <<>>
        failedParts ==
            IF failed_pods # <<>>
            THEN <<Part("failed_header", <<>>, <<>>, <<>>)>>
                 \o [i \in 1..Len(topFailed) |-> FailedPodPart(topFailed[i])]
            ELSE <<>>
    IN  IF \E i \in 1..Len(top) : MessageSliceRaises(top[i])
        THEN [exception |-> "TypeError", parts |-> <<>>]
        ELSE [exception |-> "none", parts |-> fixed \o eventParts \o failedParts]

(***************************************************************************)
(* The completion text and json.loads                                      *)
(*                                                                         *)
(* The text is a sequence of symbols: the characters "{", "}" and ",",     *)
(* a prose character "t", and "A", which stands for the member list        *)
(*   "health_score":85,"summary":"ok","issues":[],"predictions":[],        *)
(*   "recommendations":[]                                                  *)
(***************************************************************************)
TextSymbols == {"{", "}", ",", "t", "A"}

MemberFields ==
    [health_score |-> 85, summary |-> "ok", issues |-> <<>>,
     predictions |-> <<>>, recommendations |-> <<>>]

RECURSIVE ParseMembers(_, _, _)
\* the members of an object from position i of s on, each followed by ","
\* and another member or by the closing brace, which must end s
ParseMembers(s, i, obj) ==
    IF i > Len(s) THEN [ok |-> FALSE, obj |-> EmptyDict]
    ELSE IF s[i] = "A"
    THEN IF i + 1 > Len(s) THEN [ok |-> FALSE, obj |-> EmptyDict]
         ELSE IF s[i + 1] = "}"
              THEN [ok |-> i + 1 = Len(s), obj |-> MemberFields @@ obj]
         ELSE IF s[i + 1] = ","
              THEN ParseMembers(s, i + 2, MemberFields @@ obj)
         ELSE [ok |-> FALSE, obj |-> EmptyDict]
    ELSE [ok |-> FALSE, obj |-> EmptyDict]

\* json.loads(s): ok is FALSE when it raises json.JSONDecodeError
JsonLoads(s) ==
    IF Len(s) < 2 \/ s[1] # "{" THEN [ok |-> FALSE, obj |-> EmptyDict]
    ELSE IF s[2] = "}" THEN [ok |-> Len(s) = 2, obj |-> EmptyDict]
    ELSE ParseMembers(s, 2, EmptyDict)

\* str.find(ch): 0-based index of the first occurrence, -1 when absent
Find(s, ch) ==
    IF \E i \in 1..Len(s) : s[i] = ch
    THEN (CHOOSE i \in 1..Len(s) : s[i] = ch /\ \A j \in 1..(i - 1) : s[j] # ch) - 1
    ELSE -1

\* str.rfind(ch): 0-based index of the last occurrence, -1 when absent
RFind(s, ch) ==
    IF \E i \in 1..Len(s) : s[i] = ch
    THEN (CHOOSE i \in 1..Len(s) : s[i] = ch /\ \A j \in (i + 1)..Len(s) : s[j] # ch) - 1
    ELSE -1

\* analysis_text[start:end] for 0 <= start < end
Slice(s, start, end) == SubSeq(s, start + 1, end)

SpanStart(analysis_text) == Find(analysis_text, "{")

SpanEndFirstBrace(analysis_text) == Find(analysis_text, "}") + 1

\* end = analysis_text.rfind('}') + 1
SpanEnd(analysis_text) == RFind(analysis_text, "}") + 1

(***************************************************************************)
(* analyze_cluster_health: the response of the completion service          *)
(***************************************************************************)
NoResponse == [status |-> 0, body |-> [shape |-> "none", content |-> <<>>]]

\* requests.Response.raise_for_status raises HTTPError for 4xx and 5xx only
RaiseForStatusRaises(status) == 400 <= status /\ status < 600

\* the first except clause that matches the exception class
HandlerFor(exception) ==
    IF exception \in {"ConnectionError", "Timeout", "HTTPError", "RequestsJSONDecodeError"}
    THEN "RequestException"
    ELSE IF exception = "JSONDecodeError" THEN "JSONDecodeError"
    ELSE IF exception = "KeyError" THEN "KeyError"
    ELSE "Exception"

\* result = response.json(); analysis_text = result['choices'][0]['message']['content']
\* and len(analysis_text): the exception raised, "none" when a str is obtained
ContentException(body) ==
    CASE body.shape = "not_json" -> "RequestsJSONDecodeError"
      [] body.shape = "json_list" -> "TypeError"
      [] body.shape = "no_choices" -> "KeyError"
      [] body.shape = "empty_choices" -> "IndexError"
      [] body.shape = "no_message" -> "KeyError"
      [] body.shape = "no_content" -> "KeyError"
      [] body.shape = "null_content" -> "TypeError"
      [] OTHER -> "none"

\* lines 93-102: the span from the first "{" to the last "}" and its parse
Extract(analysis_text, cd) ==
    LET start == SpanStart(analysis_text)
        end == SpanEnd(analysis_text)
    IN  IF start >= 0 /\ end > start
        THEN LET parsed == JsonLoads(Slice(analysis_text, start, end))
             IN  IF parsed.ok
                 THEN [handler |-> "none", path |-> "parsed", value |-> parsed.obj]
                 ELSE [handler |-> HandlerFor("JSONDecodeError"), path |-> "fallback",
                       value |-> _fallback_analysis(cd)]
        ELSE [handler |-> "none", path |-> "fallback", value |-> _fallback_analysis(cd)]

\* if response.status_code != 200: response.raise_for_status()
StatusCheckRaises(status) == status # 200 /\ RaiseForStatusRaises(status)

\* lines 83-120 on a received response
ProcessResponse(resp, cd) ==
    IF StatusCheckRaises(resp.status)
    THEN [handler |-> HandlerFor("HTTPError"), path |-> "fallback",
          value |-> _fallback_analysis(cd)]
    ELSE IF ContentException(resp.body) # "none"
    THEN [handler |-> HandlerFor(ContentException(resp.body)), path |-> "fallback",
          value |-> _fallback_analysis(cd)]
    ELSE Extract(resp.body.content, cd)

(***************************************************************************)
(* Inputs                                                                  *)
(***************************************************************************)
OptField(k, present, v) == IF present THEN [x \in {k} |-> v] ELSE EmptyDict

SeqsUpTo(S, n) == UNION {[1..k -> S] : k \in 0..n}

\* get_pod_status: the counts read by the analyzer, each possibly absent
PodsDicts ==
    {OptField("failed", hf, f) @@ OptField("pending", hq, q)
     @@ OptField("total", ht, f + q + 1) @@ OptField("running", ht, 1) :
        hf \in BOOLEAN, f \in 0..MaxCount, hq \in BOOLEAN, q \in 0..MaxCount,
        ht \in BOOLEAN}

HighCpuPods(n) == [i \in 1..n |-> [pod |-> "web", namespace |-> "default",
                                   cpu_millicores |-> 500 + i]]

HighMemoryPods(n) == [i \in 1..n |-> [pod |-> "db", namespace |-> "default",
                                      memory_mi |-> 1024 + i]]

\* get_resource_usage: the usage summary, or only an error field
ResourceUsages ==
    {[error |-> "metrics unavailable"]}
    \cup {[total_cpu_usage |-> 0, total_memory_usage |-> 0, pod_count |-> c + m,
           high_cpu_pods |-> HighCpuPods(c), high_memory_pods |-> HighMemoryPods(m)] :
             c \in 0..MaxHighPods, m \in 0..MaxHighPods}

\* get_recent_events: event.message is passed on as received, None included
StringMessageEvents ==
    {[type |-> "Warning", reason |-> "BackOff", message |-> Str(Msg(3))],
     [type |-> "Normal", reason |-> "Pulled", message |-> Str(Msg(MessageLimit + 1))]}

NoneMessageEvent == [type |-> "Warning", reason |-> "Failed", message |-> NoneVal]

EventRecords == StringMessageEvents \cup {NoneMessageEvent}

\* the events s with the k-th one, if any, carrying no message
WithNoneAt(s, k) == [i \in 1..Len(s) |-> IF i = k THEN NoneMessageEvent ELSE s[i]]

EventLists ==
    {WithNoneAt(s, k) : s \in SeqsUpTo(StringMessageEvents, MaxEvents), k \in 0..MaxEvents}

\* get_failed_pods
EvictedPod == [name |-> "job-1", namespace |-> "batch", status |-> "Failed", reason |-> "Evicted"]

UnknownPod == [name |-> "api-0", namespace |-> "default", status |-> "Unknown"]

FailedPodRecords == {EvictedPod, UnknownPod}

\* n failed pods, alternating between the two records
FailedPodLists ==
    {[i \in 1..n |-> IF (i + o) % 2 = 0 THEN EvictedPod ELSE UnknownPod] :
        n \in 0..MaxFailedPods, o \in 0..1}

FallbackSnapshots ==
    {OptField("pods", hp, p) @@ OptField("resource_usage", hr, r)
     @@ OptField("failed_pods", hf, fp) :
        hp \in BOOLEAN, p \in PodsDicts, hr \in BOOLEAN, r \in ResourceUsages,
        hf \in BOOLEAN, fp \in SeqsUpTo({EvictedPod}, 1)}

ContextSnapshots ==
    {[pods |-> p, resource_usage |-> r, events |-> ev, failed_pods |-> fp] :
        p \in {EmptyDict, [total |-> 4, running |-> 1, failed |-> 2, pending |-> 1]},
        r \in {[error |-> "metrics unavailable"]},
        ev \in EventLists,
        fp \in FailedPodLists}

OrchestratorSnapshots ==
    {[pods |-> p, resource_usage |-> r, events |-> ev, failed_pods |-> fp] :
        p \in {[total |-> 4, running |-> 4, failed |-> 0, pending |-> 0],
               [total |-> 4, running |-> 1, failed |-> 2, pending |-> 1]},
        r \in {[error |-> "metrics unavailable"],
               [total_cpu_usage |-> 501, total_memory_usage |-> 0, pod_count |-> 1,
                high_cpu_pods |-> HighCpuPods(1), high_memory_pods |-> <<>>]},
        ev \in SeqsUpTo(EventRecords, 1),
        fp \in SeqsUpTo({EvictedPod}, 1)}

Statuses == {200, 201, 302, 404, 500}

BodyShapes == {"not_json", "json_list", "no_choices", "empty_choices", "no_message",
               "no_content", "null_content"}

Bodies ==
    {[shape |-> sh, content |-> <<>>] : sh \in BodyShapes}
    \cup {[shape |-> "text", content |-> t] : t \in SeqsUpTo(TextSymbols, MaxTextLen)}

TransportErrors == {"ConnectionError", "Timeout"}

(***************************************************************************)
(* analyze_cluster_health as a state machine                               *)
(***************************************************************************)
Init ==
    /\ cluster_data \in OrchestratorSnapshots
    /\ pc = "start"
    /\ context = <<>>
    /\ response = NoResponse
    /\ requests_sent = 0
    /\ handler = "none"
    /\ result = EmptyDict
    /\ raised = "none"

\* line 20: context = self._prepare_context(cluster_data), outside the try
PrepareContext ==
    /\ pc = "start"
    /\ LET c == _prepare_context(cluster_data)
       IN  IF c.exception # "none"
           THEN /\ raised' = c.exception
                /\ pc' = "done"
                /\ context' = context
           ELSE /\ context' = c.parts
                /\ pc' = "prepared"
                /\ raised' = raised
    /\ UNCHANGED <<cluster_data, response, requests_sent, handler, result>>

\* line 78: requests.post raises (connection error or the 30 s timeout);
\* lines 104-109 return the fallback
PostFails ==
    /\ pc = "prepared"
    /\ \E e \in TransportErrors :
          /\ handler' = HandlerFor(e)
          /\ result' = _fallback_analysis(cluster_data)
    /\ requests_sent' = requests_sent + 1
    /\ pc' = "done"
    /\ UNCHANGED <<cluster_data, context, response, raised>>

\* line 78: requests.post returns a response
PostResponds ==
    /\ pc = "prepared"
    /\ \E st \in Statuses, b \in Bodies : response' = [status |-> st, body |-> b]
    /\ requests_sent' = requests_sent + 1
    /\ pc' = "responded"
    /\ UNCHANGED <<cluster_data, context, handler, result, raised>>

\* lines 83-120: status check, decoding, extraction, return
HandleResponse ==
    /\ pc = "responded"
    /\ LET r == ProcessResponse(response, cluster_data)
       IN  /\ handler' = r.handler
           /\ result' = r.value
    /\ pc' = "done"
    /\ UNCHANGED <<cluster_data, context, response, requests_sent, raised>>

Next == PrepareContext \/ PostFails \/ PostResponds \/ HandleResponse

Spec == Init /\ [][Next]_vars

(***************************************************************************)
(* _fallback_analysis and _prepare_context as pure functions               *)
(***************************************************************************)
InitFallback ==
    /\ cluster_data \in FallbackSnapshots
    /\ pc = "fallback_call"
    /\ context = <<>>
    /\ response = NoResponse
    /\ requests_sent = 0
    /\ handler = "none"
    /\ result = EmptyDict
    /\ raised = "none"

FallbackCall ==
    /\ pc = "fallback_call"
    /\ result' = _fallback_analysis(cluster_data)
    /\ pc' = "fallback_done"
    /\ UNCHANGED <<cluster_data, context, response, requests_sent, handler, raised>>

NextFallback == FallbackCall

SpecFallback == InitFallback /\ [][NextFallback]_vars

InitContext ==
    /\ cluster_data \in ContextSnapshots
    /\ pc = "context_call"
    /\ context = <<>>
    /\ response = NoResponse
    /\ requests_sent = 0
    /\ handler = "none"
    /\ result = EmptyDict
    /\ raised = "none"

ContextCall ==
    /\ pc = "context_call"
    /\ LET c == _prepare_context(cluster_data)
       IN  /\ raised' = c.exception
           /\ context' = c.parts
    /\ pc' = "context_done"
    /\ UNCHANGED <<cluster_data, response, requests_sent, handler, result>>

NextContext == ContextCall

SpecContext == InitContext /\ [][NextContext]_vars

(***************************************************************************)
(* Properties                                                              *)
(***************************************************************************)
Returned == pc = "done" /\ raised = "none"

ResponseReceived == pc = "done" /\ response # NoResponse

IsSuccessStatus(status) == 200 <= status /\ status <= 299

AnalysisResultFields == {"health_score", "summary", "issues", "predictions", "recommendations"}

\* C1: analyze_cluster_health never raises: every call ends by returning a
\* result, and whenever a stage failed (an except clause ran) the result is
\* the Fallback Scorer's result for the same snapshot.
C1_NeverRaises ==
    pc = "done" =>
        /\ raised = "none"
        /\ (handler # "none" => result = _fallback_analysis(cluster_data))

\* C2: every result returned by analyze_cluster_health, from the extraction
\* path or the fallback path, has the five fields of an AnalysisResult and a
\* health score in 0..100.
C2_FullyPopulated ==
    Returned =>
        /\ AnalysisResultFields \subseteq DOMAIN result
        /\ result.health_score \in 0..100

\* C3: when the completion service answers with a non-2xx status, whatever
\* the body, the result is the Fallback Scorer's result for the snapshot.
C3_NonSuccessFallsBack ==
    (ResponseReceived /\ ~IsSuccessStatus(response.status)) =>
        result = _fallback_analysis(cluster_data)

\* the positions of the braces in the text, 1-based
OpenBraces(text) == {i \in 1..Len(text) : text[i] = "{"}

CloseBraces(text) == {i \in 1..Len(text) : text[i] = "}"}

FirstOpen(text) == CHOOSE i \in OpenBraces(text) : \A j \in OpenBraces(text) : i <= j

LastClose(text) == CHOOSE i \in CloseBraces(text) : \A j \in CloseBraces(text) : j <= i

\* the text has a "{" and a "}" after the first "{"
HasSpan(text) ==
    /\ OpenBraces(text) # {}
    /\ \E j \in CloseBraces(text) : j > FirstOpen(text)

SpanOf(text) == SubSeq(text, FirstOpen(text), LastClose(text))

\* C4: on a successful response the result is the object parsed from the
\* span from the first "{" to the last "}" of the first choice's text,
\* unchanged, when that span exists and parses as JSON; in every other case
\* (no span, span that does not parse, response without choices / message /
\* content) it is the Fallback Scorer's result for the same snapshot.
C4_ExtractOrFallback ==
    (ResponseReceived /\ IsSuccessStatus(response.status)) =>
        LET b == response.body
        IN  IF b.shape = "text" /\ HasSpan(b.content) /\ JsonLoads(SpanOf(b.content)).ok
            THEN result = JsonLoads(SpanOf(b.content)).obj
            ELSE result = _fallback_analysis(cluster_data)

\* C4 witness: a 200 response whose text has prose around a well-formed
\* object, and the object was returned
C4_Witness ==
    /\ ResponseReceived
    /\ response.status = 200
    /\ response.body.shape = "text"
    /\ response.body.content = <<"t", "{", "A", "}">>
    /\ result = MemberFields

FallbackDone == pc = "fallback_done"

\* C5: for every snapshot the fallback result has a health score in 0..100,
\* a non-empty issues list, a non-empty recommendations list and an empty
\* predictions list.
C5_FallbackShape ==
    FallbackDone =>
        /\ result.health_score \in 0..100
        /\ result.issues # <<>>
        /\ result.recommendations # <<>>
        /\ result.predictions = <<>>

\* C5 witness: a snapshot without pods whose resource usage carries only an
\* error field has been scored
C5_Witness ==
    /\ FallbackDone
    /\ "pods" \notin DOMAIN cluster_data
    /\ "resource_usage" \in DOMAIN cluster_data
    /\ DOMAIN cluster_data.resource_usage = {"error"}
    /\ result.issues # <<>>

\* the four conditions, read from the snapshot
SnapshotPods == IF "pods" \in DOMAIN cluster_data THEN cluster_data.pods ELSE EmptyDict

SnapshotUsage ==
    IF "resource_usage" \in DOMAIN cluster_data THEN cluster_data.resource_usage ELSE EmptyDict

HasFailed == "failed" \in DOMAIN SnapshotPods /\ SnapshotPods.failed > 0

HasHighCpu == "high_cpu_pods" \in DOMAIN SnapshotUsage /\ SnapshotUsage.high_cpu_pods # <<>>

HasHighMem ==
    "high_memory_pods" \in DOMAIN SnapshotUsage /\ SnapshotUsage.high_memory_pods # <<>>

HasPending == "pending" \in DOMAIN SnapshotPods /\ SnapshotPods.pending > 0

If(c, v) == IF c THEN v ELSE 0

ExpectedScore ==
    100 - If(HasFailed, 20) - If(HasHighCpu, 10) - If(HasHighMem, 10) - If(HasPending, 5)

\* C6: the fallback score is 100 minus 20 (failed pods), 10 (high CPU),
\* 10 (high memory) and 5 (pending pods) for each condition that holds,
\* clamped below at 0.
C6_ScoreIsSumOfDeductions ==
    FallbackDone =>
        result.health_score = (IF ExpectedScore < 0 THEN 0 ELSE ExpectedScore)

\* C6 witness: all four conditions hold and the score is 55
C6_Witness ==
    /\ FallbackDone
    /\ HasFailed /\ HasHighCpu /\ HasHighMem /\ HasPending
    /\ result.health_score = 55

When(c, v) == IF c THEN <<v>> ELSE <<>>

ExpectedIssues ==
    When(HasFailed, <<"Critical", "{} Failed Pods">>)
    \o When(HasHighCpu, <<"Warning", "High CPU Usage Detected">>)
    \o When(HasHighMem, <<"Warning", "High Memory Usage Detected">>)
    \o When(HasPending, <<"Info", "{} Pods Pending">>)

ExpectedRecommendations ==
    When(HasFailed, <<"high", "Investigate failed pods">>)
    \o When(HasHighCpu, <<"medium", "Review pod resource limits">>)

IssueHeads(issues) == [i \in 1..Len(issues) |-> <<issues[i].severity, issues[i].title.fmt>>]

RecommendationHeads(recs) == [i \in 1..Len(recs) |-> <<recs[i].priority, recs[i].action>>]

\* C7: the fallback emits one issue per triggered rule, in rule order
\* (Critical, Warning, Warning, Info), one recommendation for each of rules
\* 1 (high) and 2 (medium) that triggered and none for rules 3 and 4; with
\* no issue the list is the single Info "No Issues Detected", with no
\* recommendation the single low-priority "Continue monitoring".
C7_IssuesAndRecommendations ==
    FallbackDone =>
        /\ IssueHeads(result.issues) =
              (IF ExpectedIssues # <<>> THEN ExpectedIssues
               ELSE << <<"Info", "No Issues Detected">> >>)
        /\ RecommendationHeads(result.recommendations) =
              (IF ExpectedRecommendations # <<>> THEN ExpectedRecommendations
               ELSE << <<"low", "Continue monitoring">> >>)

\* C7 witness: only the high-memory and pending rules triggered: two issues
\* and the synthesized recommendation
C7_Witness ==
    /\ FallbackDone
    /\ ~HasFailed /\ ~HasHighCpu /\ HasHighMem /\ HasPending
    /\ Len(result.issues) = 2
    /\ result.recommendations = <<ContinueMonitoring>>

ContextDone == pc = "context_done"

SnapshotEvents == cluster_data.events

SnapshotFailedPods == cluster_data.failed_pods

PartsOfKind(kind) == SelectSeq(context, LAMBDA part : part.kind = kind)

IsPrefixOf(s, t) == Len(s) <= Len(t) /\ s = SubSeq(t, 1, Len(s))

\* C8: for every snapshot _prepare_context renders min(n,5) event entries,
\* the first events in order with messages of at most 100 characters, and
\* min(m,3) failed-pod entries, the first failed pods in order; the output
\* has at most 4 + 1 + 5 + 1 + 3 entries.
C8_BoundedContext ==
    ContextDone =>
        LET ev == PartsOfKind("event")
            fp == PartsOfKind("failed_pod")
        IN  /\ raised = "none"
            /\ Len(ev) = Min(Len(SnapshotEvents), 5)
            /\ \A i \in 1..Len(ev) :
                  /\ ev[i].strs = <<SnapshotEvents[i].type, SnapshotEvents[i].reason>>
                  /\ Len(ev[i].msg) <= 100
                  /\ IsPrefixOf(ev[i].msg, SnapshotEvents[i].message.v)
            /\ Len(fp) = Min(Len(SnapshotFailedPods), 3)
            /\ \A i \in 1..Len(fp) :
                  /\ fp[i].strs[1] = SnapshotFailedPods[i].namespace
                  /\ fp[i].strs[2] = SnapshotFailedPods[i].name
            /\ Len(context) <= 14

\* the request failed: transport error or timeout, non-success status, or
\* content without a JSON object
RequestFailed ==
    /\ pc = "done"
    /\ requests_sent > 0
    /\ \/ response = NoResponse
       \/ ~IsSuccessStatus(response.status)
       \/ response.body.shape # "text"
       \/ ~HasSpan(response.body.content)
       \/ ~JsonLoads(SpanOf(response.body.content)).ok

\* C9: one call sends at most one request, and after any failure of that
\* request the Fallback Scorer's result is returned.
C9_SingleAttemptThenFallback ==
    /\ requests_sent <= 1
    /\ RequestFailed => result = _fallback_analysis(cluster_data)

\* C10: the fallback summary is chosen by the score alone (>= 90 healthy,
\* 70..89 some issues, below 70 significant issues); the default summary
\* string is never returned.
C10_SummaryBands ==
    FallbackDone =>
        /\ result.health_score >= 90 => result.summary = "Cluster is healthy with minor issues"
        /\ (result.health_score >= 70 /\ result.health_score < 90) =>
              result.summary = "Cluster has some issues requiring attention"
        /\ result.health_score < 70 =>
              result.summary = "Cluster has significant issues requiring immediate attention"
        /\ result.summary # DefaultSummary

\* C10 witness: the score 70, the lower end of the second band, was returned
\* with that band's summary
C10_Witness ==
    /\ FallbackDone
    /\ result.health_score = 70
    /\ result.summary = SummarySomeIssues

(***************************************************************************)
(* KubernetesMonitor.get_resource_usage (src/app/k8s_monitor.py)           *)
(*                                                                         *)
(* A quantity string is a sequence of one-character strings.  The result   *)
(* of a true division is the exact fraction [num, den]; the int 0 is the   *)
(* fraction 0/1.                                                           *)
(***************************************************************************)
MaxContainers == 2

DigitChars == <<"0", "1", "2", "3", "4", "5", "6", "7", "8", "9">>

IsDigit(c) == \E d \in 1..10 : DigitChars[d] = c

DigitValue(c) == (CHOOSE d \in 1..10 : DigitChars[d] = c) - 1

RECURSIVE DecimalValue(_)
\* the number written by the decimal digits s
DecimalValue(s) ==
    IF s = <<>> THEN 0
    ELSE 10 * DecimalValue(SubSeq(s, 1, Len(s) - 1)) + DigitValue(s[Len(s)])

\* int(s): ok is FALSE when it raises ValueError
PyInt(s) ==
    IF s # <<>> /\ \A i \in 1..Len(s) : IsDigit(s[i])
    THEN [ok |-> TRUE, val |-> DecimalValue(s)]
    ELSE [ok |-> FALSE, val |-> 0]

\* sub occurs in s at position i
OccursAt(s, sub, i) == i + Len(sub) - 1 <= Len(s) /\ SubSeq(s, i, i + Len(sub) - 1) = sub

\* sub in s
Contains(s, sub) == \E i \in 1..Len(s) : OccursAt(s, sub, i)

RECURSIVE Remove(_, _)
\* s.replace(sub, ''): every occurrence removed, left to right
Remove(s, sub) ==
    IF s = <<>> THEN <<>>
    ELSE IF OccursAt(s, sub, 1) THEN Remove(SubSeq(s, Len(sub) + 1, Len(s)), sub)
    ELSE <<s[1]>> \o Remove(Tail(s), sub)

Frac(n, d) == [num |-> n, den |-> d]

Zero == Frac(0, 1)

\* a + b for fractions of which one denominator divides the other
FracAdd(a, b) ==
    LET d == Max(a.den, b.den)
    IN  Frac(a.num * (d \div a.den) + b.num * (d \div b.den), d)

\* a > k for an integer k
FracGt(a, k) == a.num > k * a.den

\* round(a, 2) as a fraction over 100, ties to the even hundredth
Round2(a) ==
    LET whole == (a.num \div a.den) * 100
        scaled == (a.num % a.den) * 100
        q == whole + (scaled \div a.den)
        r2 == 2 * (scaled % a.den)
    IN  Frac(IF r2 > a.den \/ (r2 = a.den /\ q % 2 = 1) THEN q + 1 ELSE q, 100)

NanoMarker == <<"n">>

KibiMarker == <<"K", "i">>

CpuDivisor == 1000000

MemoryDivisor == 1024

cpu_value_any_suffix(cpu) ==
    LET digits == SelectSeq(cpu, IsDigit)
    IN  [ok |-> digits # <<>>, val |-> Frac(DecimalValue(digits), CpuDivisor)]

\* cpu_value = int(cpu.replace('n', '')) / 1_000_000 if 'n' in cpu else 0
cpu_value(cpu) ==
    IF Contains(cpu, NanoMarker)
    THEN LET i == PyInt(Remove(cpu, NanoMarker))
         IN  [ok |-> i.ok, val |-> Frac(i.val, CpuDivisor)]
    ELSE [ok |-> TRUE, val |-> Zero]

\* mem_value = int(memory.replace('Ki', '')) / 1024 if 'Ki' in memory else 0
mem_value(memory) ==
    IF Contains(memory, KibiMarker)
    THEN LET i == PyInt(Remove(memory, KibiMarker))
         IN  [ok |-> i.ok, val |-> Frac(i.val, MemoryDivisor)]
    ELSE [ok |-> TRUE, val |-> Zero]

DefaultQuantity == <<"0">>

HighCpuThreshold == 500

HighMemoryThreshold == 1024

\* lines 100-106
EmptyUsageSummary ==
    [total_cpu_usage |-> Zero, total_memory_usage |-> Zero, pod_count |-> 0,
     high_cpu_pods |-> <<>>, high_memory_pods |-> <<>>]

MetricsError == [error |-> "metrics unavailable"]

\* lines 110-135: one container of pod added to the summary
AddContainer(summary, pod, container) ==
    LET cpu == Get(container.usage, "cpu", DefaultQuantity)
        memory == Get(container.usage, "memory", DefaultQuantity)
        c == cpu_value(cpu).val
        m == mem_value(memory).val
    IN  [total_cpu_usage |-> FracAdd(summary.total_cpu_usage, c),
         total_memory_usage |-> FracAdd(summary.total_memory_usage, m),
         pod_count |-> summary.pod_count + 1,
         high_cpu_pods |->
            IF FracGt(c, HighCpuThreshold)
            THEN Append(summary.high_cpu_pods,
                        [pod |-> pod.metadata.name, namespace |-> pod.metadata.namespace,
                         cpu_millicores |-> Round2(c)])
            ELSE summary.high_cpu_pods,
         high_memory_pods |->
            IF FracGt(m, HighMemoryThreshold)
            THEN Append(summary.high_memory_pods,
                        [pod |-> pod.metadata.name, namespace |-> pod.metadata.namespace,
                         memory_mi |-> Round2(m)])
            ELSE summary.high_memory_pods]

\* int() raises ValueError on one of the two quantities of the container
ContainerRaises(container) ==
    \/ ~cpu_value(Get(container.usage, "cpu", DefaultQuantity)).ok
    \/ ~mem_value(Get(container.usage, "memory", DefaultQuantity)).ok

\* the (pod, container) pairs in the order of the two nested loops
RECURSIVE Containers(_)
Containers(items) ==
    IF items = <<>> THEN <<>>
    ELSE LET pod == Head(items)
             cs == Get(pod, "containers", <<>>)
         IN  [i \in 1..Len(cs) |-> [pod |-> pod, container |-> cs[i]]]
             \o Containers(Tail(items))

RECURSIVE Accumulate(_, _)
Accumulate(summary, pairs) ==
    IF pairs = <<>> THEN summary
    ELSE Accumulate(AddContainer(summary, Head(pairs).pod, Head(pairs).container),
                    Tail(pairs))

\* lines 93-140 on the answer of the metrics API
get_resource_usage(pods_metrics) ==
    LET pairs == Containers(Get(pods_metrics, "items", <<>>))
    IN  IF \E i \in 1..Len(pairs) : ContainerRaises(pairs[i].container)
        THEN MetricsError
        ELSE Accumulate(EmptyUsageSummary, pairs)

\* quantity strings as the metrics API writes them: digits and a suffix
CpuQuantities ==
    {<<"0">>,
     <<"2", "5", "0", "m">>,
     <<"3", "u">>,
     <<"2">>,
     <<"1", "2", "3", "4", "5", "6", "7", "n">>,
     <<"5", "0", "0", "0", "0", "0", "0", "0", "0", "n">>,
     <<"6", "0", "0", "1", "2", "5", "0", "0", "0", "n">>}

MemoryQuantities ==
    {<<"0">>,
     <<"5", "1", "2", "M", "i">>,
     <<"2", "G", "i">>,
     <<"1", "2", "9", "M">>,
     <<"6", "4", "k">>,
     <<"1", "0", "4", "8", "5", "7", "6", "K", "i">>,
     <<"2", "0", "9", "7", "1", "5", "3", "K", "i">>,
     <<"1", "3", "4", "2", "1", "7", "7", "2", "8">>,
     <<"1", "5", "0", "0", "K", "i">>}

\* the usage of a container: both quantities, or one of the keys absent
ContainerUsages ==
    {[usage |-> [cpu |-> <<"0">>,
                 memory |-> <<"0">>]],
     [usage |-> [cpu |-> <<"2", "5", "0", "m">>,
                 memory |-> <<"5", "1", "2", "M", "i">>]],
     [usage |-> [cpu |-> <<"3", "u">>,
                 memory |-> <<"2", "G", "i">>]],
     [usage |-> [cpu |-> <<"2">>,
                 memory |-> <<"1", "2", "9", "M">>]],
     [usage |-> [cpu |-> <<"1", "2", "3", "4", "5", "6", "7", "n">>,
                 memory |-> <<"6", "4", "k">>]],
     [usage |-> [cpu |-> <<"5", "0", "0", "0", "0", "0", "0", "0", "0", "n">>,
                 memory |-> <<"1", "0", "4", "8", "5", "7", "6", "K", "i">>]],
     [usage |-> [cpu |-> <<"6", "0", "0", "1", "2", "5", "0", "0", "0", "n">>,
                 memory |-> <<"2", "0", "9", "7", "1", "5", "3", "K", "i">>]],
     [usage |-> [cpu |-> <<"1", "2", "3", "4", "5", "6", "7", "n">>,
                 memory |-> <<"1", "3", "4", "2", "1", "7", "7", "2", "8">>]],
     [usage |-> [cpu |-> <<"2", "5", "0", "m">>,
                 memory |-> <<"1", "5", "0", "0", "K", "i">>]],
     [usage |-> [cpu |-> <<"3", "u">>]],
     [usage |-> [memory |-> <<"2", "G", "i">>]],
     [usage |-> EmptyDict]}

MetricsPod(name, containers) ==
    [metadata |-> [name |-> name, namespace |-> "default"], containers |-> containers]

\* up to MaxContainers containers, spread over two pods
PodsMetrics ==
    {[kind |-> "PodMetricsList", items |-> <<>>]}
    \cup UNION {{[kind |-> "PodMetricsList",
                  items |-> <<MetricsPod("web", SubSeq(cs, 1, k)),
                              MetricsPod("db", SubSeq(cs, k + 1, Len(cs)))>>] :
                    k \in 0..Len(cs)} :
                 cs \in SeqsUpTo(ContainerUsages, MaxContainers)}

InitUsage ==
    /\ response \in PodsMetrics
    /\ pc = "usage_call"
    /\ cluster_data = EmptyDict
    /\ context = <<>>
    /\ requests_sent = 0
    /\ handler = "none"
    /\ result = EmptyDict
    /\ raised = "none"

\* response holds pods_metrics, result the value returned
UsageCall ==
    /\ pc = "usage_call"
    /\ result' = get_resource_usage(response)
    /\ pc' = "usage_done"
    /\ UNCHANGED <<cluster_data, context, response, requests_sent, handler, raised>>

NextUsage == UsageCall

SpecUsage == InitUsage /\ [][NextUsage]_vars

UsageDone == pc = "usage_done"

UsageQuantities(key) ==
    LET pairs == Containers(response.items)
    IN  [i \in 1..Len(pairs) |->
            IF key \in DOMAIN pairs[i].container.usage
            THEN pairs[i].container.usage[key] ELSE <<"0">>]

EndsWith(s, suffix) ==
    Len(s) >= Len(suffix) /\ SubSeq(s, Len(s) - Len(suffix) + 1, Len(s)) = suffix

\* the integer prefix of a string with the suffix, 0 for a string without it
PrefixOrZero(s, suffix) ==
    IF EndsWith(s, suffix) THEN DecimalValue(SubSeq(s, 1, Len(s) - Len(suffix))) ELSE 0

RECURSIVE SumPrefixes(_, _)
SumPrefixes(qs, suffix) ==
    IF qs = <<>> THEN 0 ELSE PrefixOrZero(Head(qs), suffix) + SumPrefixes(Tail(qs), suffix)

\* C11: get_resource_usage raises no error and counts every CPU string
\* without the final 'n' and every memory string without the final 'Ki' as
\* 0, and every string with the suffix as its integer prefix divided by
\* 1,000,000 (CPU) or 1,024 (memory): the totals are the sums of these
\* values, so "500000000n" alone gives 500 and "1048576Ki" alone gives 1024.
C11_UnitParser ==
    UsageDone =>
        /\ "error" \notin DOMAIN result
        /\ result.total_cpu_usage.den \in {1, 1000000}
        /\ result.total_cpu_usage.num * (1000000 \div result.total_cpu_usage.den) =
              SumPrefixes(UsageQuantities("cpu"), <<"n">>)
        /\ result.total_memory_usage.den \in {1, 1024}
        /\ result.total_memory_usage.num * (1024 \div result.total_memory_usage.den) =
              SumPrefixes(UsageQuantities("memory"), <<"K", "i">>)

\* C11 witness: a container with "250m" and "512Mi" and a container with
\* "500000000n" and "1048576Ki" were summed to 500 millicores and 1024 MiB
C11_Witness ==
    /\ UsageDone
    /\ UsageQuantities("cpu") = << <<"2", "5", "0", "m">>,
                                   <<"5", "0", "0", "0", "0", "0", "0", "0", "0", "n">> >>
    /\ UsageQuantities("memory") = << <<"5", "1", "2", "M", "i">>,
                                      <<"1", "0", "4", "8", "5", "7", "6", "K", "i">> >>
    /\ result.total_cpu_usage = Frac(500 * 1000000, 1000000)
    /\ result.total_memory_usage = Frac(1024 * 1024, 1024)
    /\ result.pod_count = 2

====
